---- MODULE Spec2Model ----
(***************************************************************************)
(* Model of mqtt-proxy/proxy.js: one bridge session per accepted WebSocket *)
(* connection, pairing the WebSocket `ws` with its own MQTT client         *)
(* `mqttClient`.  Every handler registered in wss.on('connection') is one  *)
(* operator On...; every event the two transports can emit is one action   *)
(* that joins the transport's own state change with the handler's body.    *)
(***************************************************************************)
EXTENDS Integers, Sequences, FiniteSets, TLC

\* Bound on the number of input events the transports deliver: browser frames,
\* MQTT messages, MQTT errors, offline signals and reconnect attempts.
MaxEvents == 3

\* Bound on the same events when all sessions run concurrently (MultiSpec).
MaxMultiEvents == 1
\* Close events a flaky transport delivers again.
MaxDupCloses == 2

\* The connections accepted by the server; each is one bridge session.
Sessions == {"s1", "s2"}

----------------------------------------------------------------------------
(* JSON values, JSON.stringify and JSON.parse                              *)

JStr(s) == [k |-> "str", s |-> s]
JNum(n) == [k |-> "num", n |-> n]
JBool(b) == [k |-> "bool", b |-> b]
JNull == [k |-> "null"]
\* An object is the sequence of its <<key, value>> members, in insertion order.
JObj(members) == [k |-> "obj", m |-> members]
\* The value of a property that is absent.
Undefined == [k |-> "undefined"]

RECURSIVE Stringify(_)
RECURSIVE StringifyMembers(_)
\* JSON.stringify, for strings that hold no character that needs escaping.
Stringify(v) ==
    CASE v.k = "str" -> "\"" \o v.s \o "\""
      [] v.k = "num" -> ToString(v.n)
      [] v.k = "bool" -> (IF v.b THEN "true" ELSE "false")
      [] v.k = "null" -> "null"
      [] v.k = "obj" -> "{" \o StringifyMembers(v.m) \o "}"

StringifyMembers(ms) ==
    IF ms = <<>> THEN ""
    ELSE "\"" \o ms[1][1] \o "\":" \o Stringify(ms[1][2])
         \o (IF Len(ms) > 1 THEN "," ELSE "") \o StringifyMembers(Tail(ms))

\* msg.key: the member's value, Undefined when absent (also on a primitive).
Get(v, key) ==
    IF v.k = "obj" /\ \E i \in 1..Len(v.m) : v.m[i][1] = key
    THEN v.m[CHOOSE i \in 1..Len(v.m) : v.m[i][1] = key][2]
    ELSE Undefined

\* JavaScript truthiness of a value.
Truthy(v) ==
    CASE v.k = "str" -> v.s # ""
      [] v.k = "num" -> v.n # 0
      [] v.k = "bool" -> v.b
      [] v.k = "obj" -> TRUE
      [] OTHER -> FALSE

\* `${v}` in a template literal, for the values a topic takes here.
TemplateText(v) ==
    CASE v.k = "str" -> v.s
      [] v.k = "num" -> ToString(v.n)
      [] OTHER -> Stringify(v)

\* The text frames a browser sends in this model.
FramePublishObj == "{\"type\":\"publish\",\"topic\":\"heltec/cmd\",\"payload\":{\"on\":true}}"
FramePublishEmpty == "{\"type\":\"publish\",\"topic\":\"heltec/led\",\"payload\":\"\"}"
FrameNotJson == "not json"
FrameNoPayload == "{\"type\":\"publish\",\"topic\":\"heltec/cmd\"}"
FrameNull == "null"
FrameTopicNumber == "{\"type\":\"publish\",\"topic\":5,\"payload\":0}"
FrameTopicEmpty == "{\"type\":\"publish\",\"topic\":\"\",\"payload\":1}"
FrameSubscribe == "{\"type\":\"subscribe\",\"topic\":\"heltec/cmd\",\"payload\":1}"

InboundFrames ==
    {FramePublishObj, FramePublishEmpty, FrameNotJson, FrameNoPayload, FrameNull,
     FrameTopicNumber, FrameTopicEmpty, FrameSubscribe}

\* JSON.parse on the frames above: the parsed value, or the SyntaxError thrown.
JSONparse(text) ==
    CASE text = FramePublishObj ->
           [ok |-> TRUE,
            value |-> JObj(<< <<"type", JStr("publish")>>,
                              <<"topic", JStr("heltec/cmd")>>,
                              <<"payload", JObj(<< <<"on", JBool(TRUE)>> >>)>> >>)]
      [] text = FramePublishEmpty ->
           [ok |-> TRUE,
            value |-> JObj(<< <<"type", JStr("publish")>>,
                              <<"topic", JStr("heltec/led")>>,
                              <<"payload", JStr("")>> >>)]
      [] text = FrameNoPayload ->
           [ok |-> TRUE,
            value |-> JObj(<< <<"type", JStr("publish")>>,
                              <<"topic", JStr("heltec/cmd")>> >>)]
      [] text = FrameNull -> [ok |-> TRUE, value |-> JNull]
      [] text = FrameTopicNumber ->
           [ok |-> TRUE,
            value |-> JObj(<< <<"type", JStr("publish")>>,
                              <<"topic", JNum(5)>>,
                              <<"payload", JNum(0)>> >>)]
      [] text = FrameTopicEmpty ->
           [ok |-> TRUE,
            value |-> JObj(<< <<"type", JStr("publish")>>,
                              <<"topic", JStr("")>>,
                              <<"payload", JNum(1)>> >>)]
      [] text = FrameSubscribe ->
           [ok |-> TRUE,
            value |-> JObj(<< <<"type", JStr("subscribe")>>,
                              <<"topic", JStr("heltec/cmd")>>,
                              <<"payload", JNum(1)>> >>)]
      [] OTHER ->
           [ok |-> FALSE, message |-> "Unexpected token o in JSON at position 1"]

\* Reading a property of null throws a TypeError.
NullTypeError == "Cannot read properties of null (reading 'type')"

----------------------------------------------------------------------------
(* MQTT payload bytes and Buffer.toString()                                *)

\* The character of a byte, for the bytes the payloads below hold.
Chr(b) ==
    CASE b = 50 -> "2" [] b = 51 -> "3" [] b = 46 -> "." [] b = 53 -> "5"
      [] b = 111 -> "o" [] b = 110 -> "n"

RECURSIVE BufferToString(_)
\* message.toString(): the bytes decoded as text.
BufferToString(bytes) ==
    IF bytes = <<>> THEN "" ELSE Chr(bytes[1]) \o BufferToString(Tail(bytes))

\* The messages the broker delivers in this model: <<topic, payload bytes>>.
MqttMessages ==
    { <<"heltec/lora/data", <<50, 51, 46, 53>> >>,
      <<"heltec/nodes/n1/status", <<111, 110>> >> }
\* err.message of the errors the MQTT client reports.
MqttErrorMessages == {"connect ECONNREFUSED"}
PublishErrorMessages == {"client disconnecting"}

----------------------------------------------------------------------------
(* State                                                                   *)

VARIABLES
    ws,             \* ws.readyState of each session: NONE before the accept
    mqStream,       \* the MQTT client's connection: none, opening, open, lost, closed
    mqConnected,    \* mqttClient.connected
    mqttEndCalls,   \* number of mqttClient.end() calls
    wsCloseCalls,   \* number of ws.close() calls
    wsSent,         \* the texts handed to ws.send, in order
    published,      \* the mqttClient.publish calls, in order
    subscribed,     \* the mqttClient.subscribe calls, in order
    pubPending,     \* publish calls whose callback has not run yet
    wsFaulty,       \* ws.send throws on this session's WebSocket
    sendFailures,   \* number of ws.send calls that threw
    uncaught,       \* number of exceptions that left a handler uncaught
    dupCloses,      \* close events delivered again after the first
    events          \* input events delivered so far, over all sessions

vars == <<ws, mqStream, mqConnected, mqttEndCalls, wsCloseCalls, wsSent,
          published, subscribed, pubPending, wsFaulty, sendFailures, uncaught,
          dupCloses, events>>

\* WebSocket.OPEN, as ws.readyState is compared in every handler.
OPEN == "OPEN"

\* mqttClient.end() has been called: the client is disconnecting for good.
mqEnding(s) == mqttEndCalls[s] > 0

Init ==
    /\ ws = [s \in Sessions |-> "NONE"]
    /\ mqStream = [s \in Sessions |-> "none"]
    /\ mqConnected = [s \in Sessions |-> FALSE]
    /\ mqttEndCalls = [s \in Sessions |-> 0]
    /\ wsCloseCalls = [s \in Sessions |-> 0]
    /\ wsSent = [s \in Sessions |-> <<>>]
    /\ published = [s \in Sessions |-> <<>>]
    /\ subscribed = [s \in Sessions |-> <<>>]
    /\ pubPending = [s \in Sessions |-> <<>>]
    /\ wsFaulty = [s \in Sessions |-> FALSE]
    /\ sendFailures = [s \in Sessions |-> 0]
    /\ uncaught = [s \in Sessions |-> 0]
    /\ dupCloses = 0
    /\ events = 0

----------------------------------------------------------------------------
(* The frames the session sends and the calls it makes                     *)

StatusFrame == Stringify(JObj(<< <<"status", JStr("connected")>> >>))

DataFrame(topic, message) ==
    Stringify(JObj(<< <<"topic", JStr(topic)>>,
                      <<"payload", JStr(BufferToString(message))>> >>))

BrokerErrorFrame(message) ==
    Stringify(JObj(<< <<"error", JStr("MQTT Broker Connection Error: " \o message)>>,
                      <<"status", JStr("disconnected")>> >>))

OfflineFrame ==
    Stringify(JObj(<< <<"error", JStr("MQTT Client Offline: Connection lost")>>,
                      <<"status", JStr("disconnected")>> >>))

PublishFailedFrame(topic, message) ==
    Stringify(JObj(<< <<"error", JStr("Publish failed to " \o TemplateText(topic)
                                      \o ": " \o message)>> >>))

\* JSON.stringify of the fixed object of line 142, its quotes escaped.
InvalidFormatFrame ==
    "{\"error\":\"Invalid WebSocket message format. Expected {type: \\\"publish\\\", topic: \\\"...\\\", payload: \\\"...\\\"}\"}"

ParseErrorFrame(message) ==
    Stringify(JObj(<< <<"error", JStr("Invalid message format: " \o message)>> >>))

\* The three subscribe calls of the connect handler, in order.
Subscriptions ==
    << [filter |-> "heltec/lora/data", qos |-> 0],
       [filter |-> "heltec/gateway/+/status", qos |-> 0],
       [filter |-> "heltec/nodes/+/status", qos |-> 0] >>

\* ws.send(text) on session s.
WsSend(s, text) == wsSent' = [wsSent EXCEPT ![s] = Append(@, text)]

\* ws.send(text) throws: nothing is handed over.
WsSendThrows(s) ==
    /\ sendFailures' = [sendFailures EXCEPT ![s] = @ + 1]
    /\ UNCHANGED wsSent

\* The guarded send without its readyState check.
SendIfOpen_Unguarded(s, text) ==
    IF wsFaulty[s] THEN WsSendThrows(s)
    ELSE WsSend(s, text) /\ UNCHANGED sendFailures

\* if (ws.readyState === WebSocket.OPEN) { try { ws.send(text) } catch (e) { log } }
SendIfOpen(s, text) ==
    IF ws[s] # OPEN THEN UNCHANGED <<wsSent, sendFailures>>
    ELSE IF wsFaulty[s] THEN WsSendThrows(s)
    ELSE WsSend(s, text) /\ UNCHANGED sendFailures

\* if (ws.readyState === WebSocket.OPEN) ws.send(text), outside any try: an
\* exception of ws.send leaves the handler.
SendIfOpenNoTry(s, text) ==
    IF ws[s] # OPEN THEN UNCHANGED <<wsSent, sendFailures, uncaught>>
    ELSE IF wsFaulty[s]
    THEN /\ WsSendThrows(s)
         /\ uncaught' = [uncaught EXCEPT ![s] = @ + 1]
    ELSE /\ WsSend(s, text)
         /\ UNCHANGED <<sendFailures, uncaught>>

\* if (mqttClient && mqttClient.connected) mqttClient.end()
EndIfConnected(s) ==
    mqttEndCalls' = IF mqConnected[s] THEN [mqttEndCalls EXCEPT ![s] = @ + 1]
                    ELSE mqttEndCalls

----------------------------------------------------------------------------
(* Handlers                                                                *)

\* The connect handler without its status frame.
OnMqttConnect_NoStatus(s, subErrs) ==
    /\ subscribed' = [subscribed EXCEPT ![s] = @ \o Subscriptions]
    /\ UNCHANGED <<wsSent, sendFailures>>

\* The connect handler giving up at the first subscription that fails.
OnMqttConnect_StopOnError(s, subErrs) ==
    /\ subscribed' = [subscribed EXCEPT ![s] =
           @ \o SubSeq(Subscriptions, 1,
                       IF subErrs = {} THEN 3
                       ELSE CHOOSE i \in subErrs : \A j \in subErrs : i <= j)]
    /\ IF subErrs = {} THEN SendIfOpen(s, StatusFrame)
       ELSE UNCHANGED <<wsSent, sendFailures>>

\* mqttClient.on('connect'); subErrs are the subscriptions whose callback gets
\* an error, which the callbacks only log.
OnMqttConnect(s, subErrs) ==
    /\ subscribed' = [subscribed EXCEPT ![s] = @ \o Subscriptions]
    /\ SendIfOpen(s, StatusFrame)

\* The message handler sending the frame twice.
OnMqttMessage_Twice(s, topic, message) ==
    /\ IF ws[s] = OPEN
       THEN wsSent' = [wsSent EXCEPT ![s] =
                          @ \o <<DataFrame(topic, message), DataFrame(topic, message)>>]
       ELSE UNCHANGED wsSent
    /\ UNCHANGED sendFailures

\* The message handler sending its data frame to every open WebSocket.
OnMqttMessage_Broadcast(s, topic, message) ==
    /\ wsSent' = [t \in Sessions |->
                    IF ws[t] = OPEN THEN Append(wsSent[t], DataFrame(topic, message))
                    ELSE wsSent[t]]
    /\ UNCHANGED sendFailures

\* mqttClient.on('message')
OnMqttMessage(s, topic, message) ==
    SendIfOpen(s, DataFrame(topic, message))

\* The error handler without its mqttClient.end().
OnMqttError_NoEnd(s, message) ==
    /\ SendIfOpen(s, BrokerErrorFrame(message))
    /\ UNCHANGED mqttEndCalls

\* mqttClient.on('error')
OnMqttError(s, message) ==
    /\ SendIfOpen(s, BrokerErrorFrame(message))
    /\ mqttEndCalls' = [mqttEndCalls EXCEPT ![s] = @ + 1]

\* The close handler without its ws.close().
OnMqttClose_NoWsClose(s) == UNCHANGED <<ws, wsCloseCalls>>

\* mqttClient.on('close')
OnMqttClose(s) ==
    IF ws[s] = OPEN
    THEN /\ ws' = [ws EXCEPT ![s] = "CLOSING"]
         /\ wsCloseCalls' = [wsCloseCalls EXCEPT ![s] = @ + 1]
    ELSE UNCHANGED <<ws, wsCloseCalls>>

\* The offline handler sending its error frame whatever ws.readyState is.
OnMqttOffline_Unguarded(s) ==
    SendIfOpen_Unguarded(s, OfflineFrame)

\* mqttClient.on('offline')
OnMqttOffline(s) ==
    SendIfOpen(s, OfflineFrame)

\* The publish call with retain set.
PublishCall_Retained(msg) ==
    [topic |-> Get(msg, "topic"),
     payload |-> Stringify(Get(msg, "payload")),
     qos |-> 0, retain |-> TRUE]

\* mqttClient.publish(msg.topic, JSON.stringify(msg.payload), {qos: 0, retain: false}, cb)
PublishCall(msg) ==
    [topic |-> Get(msg, "topic"),
     payload |-> Stringify(Get(msg, "payload")),
     qos |-> 0, retain |-> FALSE]

\* The condition of the publish branch of ws.on('message').
IsPublishRequest(msg) ==
    /\ Get(msg, "type") = JStr("publish")
    /\ Truthy(Get(msg, "topic"))
    /\ Get(msg, "payload") # Undefined

\* The catch block of ws.on('message'): the error frame, sent outside any try.
CatchBlock(s, message) == SendIfOpenNoTry(s, ParseErrorFrame(message))

\* The else branch of ws.on('message'): its send is inside the try, so an
\* exception of ws.send is caught by the catch block, which sends its own
\* error frame (and throws in turn).
ElseBranch(s) ==
    IF ws[s] = OPEN /\ wsFaulty[s]
    THEN /\ sendFailures' = [sendFailures EXCEPT ![s] = @ + 2]
         /\ uncaught' = [uncaught EXCEPT ![s] = @ + 1]
         /\ UNCHANGED wsSent
    ELSE SendIfOpenNoTry(s, InvalidFormatFrame)

\* ws.on('message')
OnWsMessage(s, message) ==
    LET parsed == JSONparse(message) IN
    IF ~parsed.ok
    THEN /\ CatchBlock(s, parsed.message)
         /\ UNCHANGED <<published, pubPending>>
    ELSE IF parsed.value = JNull
    THEN /\ CatchBlock(s, NullTypeError)
         /\ UNCHANGED <<published, pubPending>>
    ELSE IF IsPublishRequest(parsed.value)
    THEN /\ published' = [published EXCEPT ![s] =
                Append(@, PublishCall(parsed.value))]
         /\ pubPending' = [pubPending EXCEPT ![s] =
                Append(@, Get(parsed.value, "topic"))]
         /\ UNCHANGED <<wsSent, sendFailures, uncaught>>
    ELSE /\ ElseBranch(s)
         /\ UNCHANGED <<published, pubPending>>

\* The publish callback sending its error frame whatever ws.readyState is.
OnPublishCallback_Unguarded(s, topic, failed, message) ==
    IF failed
    THEN WsSend(s, PublishFailedFrame(topic, message))
         /\ UNCHANGED <<sendFailures, uncaught>>
    ELSE UNCHANGED <<wsSent, sendFailures, uncaught>>

\* The publish callback sending its error frame twice.
OnPublishCallback_Twice(s, topic, failed, message) ==
    IF failed /\ ws[s] = OPEN
    THEN /\ wsSent' = [wsSent EXCEPT ![s] =
                @ \o << PublishFailedFrame(topic, message),
                        PublishFailedFrame(topic, message) >>]
         /\ UNCHANGED <<sendFailures, uncaught>>
    ELSE UNCHANGED <<wsSent, sendFailures, uncaught>>

\* The callback given to mqttClient.publish; failed is `err` being set.
OnPublishCallback(s, topic, failed, message) ==
    IF failed THEN SendIfOpenNoTry(s, PublishFailedFrame(topic, message))
    ELSE UNCHANGED <<wsSent, sendFailures, uncaught>>

\* The ws close handler calling end() whatever mqttClient.connected is.
OnWsClose_AlwaysEnd(s) ==
    mqttEndCalls' = [mqttEndCalls EXCEPT ![s] = @ + 1]

\* ws.on('close')
OnWsClose(s) == EndIfConnected(s)

\* ws.on('error')
OnWsError(s) == EndIfConnected(s)

----------------------------------------------------------------------------
(* Events: the transport's own change and the handler it runs              *)

\* wss.on('connection'): the WebSocket is open, mqtt.connect is issued.
Connection(s) ==
    /\ ws[s] = "NONE"
    /\ ws' = [ws EXCEPT ![s] = OPEN]
    /\ mqStream' = [mqStream EXCEPT ![s] = "opening"]
    /\ UNCHANGED <<mqConnected, mqttEndCalls, wsCloseCalls, wsSent, published,
                   subscribed, pubPending, wsFaulty, dupCloses, sendFailures, uncaught,
                   events>>

\* The broker acknowledges the connection; a client whose end() was called
\* completes no connect.
MqttConnect(s, subErrs) ==
    /\ mqStream[s] = "opening"
    /\ ~mqEnding(s)
    /\ mqStream' = [mqStream EXCEPT ![s] = "open"]
    /\ mqConnected' = [mqConnected EXCEPT ![s] = TRUE]
    /\ OnMqttConnect(s, subErrs)
    /\ UNCHANGED <<ws, mqttEndCalls, wsCloseCalls, published, pubPending,
                   wsFaulty, dupCloses, uncaught, events>>

\* The broker delivers a message on a subscribed topic.
MqttMessage(s, topic, message) ==
    /\ mqStream[s] = "open"
    /\ events < MaxEvents
    /\ events' = events + 1
    /\ OnMqttMessage(s, topic, message)
    /\ UNCHANGED <<ws, mqStream, mqConnected, mqttEndCalls, wsCloseCalls,
                   published, subscribed, pubPending, wsFaulty, dupCloses, uncaught>>

\* The client reports an error of its connection (refused, reset, protocol).
MqttError(s, message) ==
    /\ mqStream[s] \in {"opening", "open"}
    /\ events < MaxEvents
    /\ events' = events + 1
    /\ OnMqttError(s, message)
    /\ UNCHANGED <<ws, mqStream, mqConnected, wsCloseCalls, published,
                   subscribed, pubPending, wsFaulty, dupCloses, uncaught>>

\* The client lost its connection and will reconnect: 'offline' is emitted
\* once the client is marked disconnected, before its 'close'.
MqttOffline(s) ==
    /\ mqStream[s] \in {"opening", "open"}
    /\ ~mqEnding(s)
    /\ events < MaxEvents
    /\ events' = events + 1
    /\ mqStream' = [mqStream EXCEPT ![s] = "lost"]
    /\ mqConnected' = [mqConnected EXCEPT ![s] = FALSE]
    /\ OnMqttOffline(s)
    /\ UNCHANGED <<ws, mqttEndCalls, wsCloseCalls, published, subscribed,
                   pubPending, wsFaulty, dupCloses, uncaught>>

\* The client's connection has closed: after end(), or lost.
MqttClose(s) ==
    /\ mqStream[s] \in {"opening", "open", "lost"}
    /\ mqStream' = [mqStream EXCEPT ![s] = "closed"]
    /\ mqConnected' = [mqConnected EXCEPT ![s] = FALSE]
    /\ OnMqttClose(s)
    /\ UNCHANGED <<mqttEndCalls, wsSent, published, subscribed, pubPending,
                   wsFaulty, dupCloses, sendFailures, uncaught, events>>

\* mqtt.connect with its default options reconnects a client whose connection
\* closed without end() having been called.
MqttReconnect(s) ==
    /\ mqStream[s] = "closed"
    /\ ~mqEnding(s)
    /\ events < MaxEvents
    /\ events' = events + 1
    /\ mqStream' = [mqStream EXCEPT ![s] = "opening"]
    /\ UNCHANGED <<ws, mqConnected, mqttEndCalls, wsCloseCalls, wsSent,
                   published, subscribed, pubPending, wsFaulty, dupCloses, sendFailures,
                   uncaught>>

\* The browser's frame arrives; ws emits no 'message' after its 'close'.
WsMessage(s, message) ==
    /\ ws[s] \in {OPEN, "CLOSING"}
    /\ events < MaxEvents
    /\ events' = events + 1
    /\ OnWsMessage(s, message)
    /\ UNCHANGED <<ws, mqStream, mqConnected, mqttEndCalls, wsCloseCalls,
                   subscribed, wsFaulty, dupCloses>>

\* The MQTT client runs the callback of the oldest pending publish.
PublishCallback(s, failed, message) ==
    /\ pubPending[s] # <<>>
    /\ pubPending' = [pubPending EXCEPT ![s] = Tail(@)]
    /\ OnPublishCallback(s, Head(pubPending[s]), failed, message)
    /\ UNCHANGED <<ws, mqStream, mqConnected, mqttEndCalls, wsCloseCalls,
                   published, subscribed, wsFaulty, dupCloses, events>>

\* The WebSocket has closed: by the peer, or after ws.close() or an error.
WsClose(s) ==
    /\ ws[s] \in {OPEN, "CLOSING"}
    /\ ws' = [ws EXCEPT ![s] = "CLOSED"]
    /\ OnWsClose(s)
    /\ UNCHANGED <<mqStream, mqConnected, wsCloseCalls, wsSent, published,
                   subscribed, pubPending, wsFaulty, dupCloses, sendFailures, uncaught,
                   events>>

\* The WebSocket fails: ws moves it to CLOSING and emits 'error'.
WsError(s) ==
    /\ ws[s] = OPEN
    /\ ws' = [ws EXCEPT ![s] = "CLOSING"]
    /\ OnWsError(s)
    /\ UNCHANGED <<mqStream, mqConnected, wsCloseCalls, wsSent, published,
                   subscribed, pubPending, wsFaulty, dupCloses, sendFailures, uncaught,
                   events>>

\* Every event one session can receive.
SessionNext(s) ==
    \/ Connection(s)
    \/ \E subErrs \in SUBSET (1..3) : MqttConnect(s, subErrs)
    \/ \E m \in MqttMessages : MqttMessage(s, m[1], m[2])
    \/ \E m \in MqttErrorMessages : MqttError(s, m)
    \/ MqttOffline(s)
    \/ MqttClose(s)
    \/ MqttReconnect(s)
    \/ \E f \in InboundFrames : WsMessage(s, f)
    \/ \E failed \in BOOLEAN, m \in PublishErrorMessages :
           PublishCallback(s, failed, m)
    \/ WsClose(s)
    \/ WsError(s)

\* A session's handlers close over its own ws and mqttClient only, so what is
\* said of one session is checked on one session: Spec runs session One.
One == "s1"

Next == SessionNext(One)

Spec == Init /\ [][Next]_vars

\* The transports complete what was requested of them: a WebSocket that is
\* closing closes, an MQTT client whose end() was called closes.
Fairness ==
    /\ WF_vars(ws[One] = "CLOSING" /\ WsClose(One))
    /\ WF_vars(mqEnding(One) /\ MqttClose(One))

FairSpec == Spec /\ Fairness

\* All sessions running concurrently, with a budget of events of its own.
MultiNext ==
    /\ \E s \in Sessions : SessionNext(s)
    /\ events' <= MaxMultiEvents

MultiSpec == Init /\ [][MultiNext]_vars

\* From now on ws.send throws on this session's WebSocket although its
\* readyState is OPEN: the failure the catch (wsSendError) blocks are there for.
WsSendFault(s) ==
    /\ ws[s] = OPEN
    /\ ~wsFaulty[s]
    /\ wsFaulty' = [wsFaulty EXCEPT ![s] = TRUE]
    /\ UNCHANGED <<ws, mqStream, mqConnected, mqttEndCalls, wsCloseCalls, wsSent,
                   published, subscribed, pubPending, sendFailures, uncaught,
                   dupCloses, events>>

ThrowNext ==
    \/ Next
    \/ WsSendFault(One)

\* Session One with a WebSocket whose send can fail.
ThrowSpec == Init /\ [][ThrowNext]_vars

\* The ws library emits 'close' once more on a WebSocket that has closed.
WsCloseAgain(s) ==
    /\ ws[s] = "CLOSED"
    /\ dupCloses < MaxDupCloses
    /\ dupCloses' = dupCloses + 1
    /\ OnWsClose(s)
    /\ UNCHANGED <<ws, mqStream, mqConnected, wsCloseCalls, wsSent, published,
                   subscribed, pubPending, wsFaulty, sendFailures, uncaught,
                   events>>

\* The mqtt library emits 'close' once more on a client that has closed.
MqttCloseAgain(s) ==
    /\ mqStream[s] = "closed"
    /\ dupCloses < MaxDupCloses
    /\ dupCloses' = dupCloses + 1
    /\ OnMqttClose(s)
    /\ UNCHANGED <<mqStream, mqConnected, mqttEndCalls, wsSent, published,
                   subscribed, pubPending, wsFaulty, sendFailures, uncaught,
                   events>>

FlakyNext ==
    \/ Next
    \/ WsCloseAgain(One)
    \/ MqttCloseAgain(One)

\* Session One with transports that repeat their close events.
FlakySpec == Init /\ [][FlakyNext]_vars

----------------------------------------------------------------------------
(* The session states of the lifecycle, read off the two transports        *)

\* Both transports closed and released: the MQTT client was ended.
Closed(s) == ws[s] = "CLOSED" /\ mqStream[s] = "closed" /\ mqEnding(s)

\* MQTT connect issued and not yet acknowledged, nothing torn down.
Connecting(s) == ws[s] = OPEN /\ mqStream[s] = "opening" /\ ~mqEnding(s)

\* Both transports live.
Bridging(s) == ws[s] = OPEN /\ mqConnected[s] /\ ~mqEnding(s)

SessionState(s) ==
    CASE ws[s] = "NONE" -> "Idle"
      [] Closed(s) -> "Closed"
      [] Connecting(s) -> "Connecting"
      [] Bridging(s) -> "Bridging"
      [] OTHER -> "Closing"

\* One of the two transports has closed.
EitherClosed(s) == ws[s] = "CLOSED" \/ mqStream[s] = "closed"

IsPrefix(a, b) == Len(a) <= Len(b) /\ SubSeq(b, 1, Len(a)) = a

----------------------------------------------------------------------------
(* Claims                                                                  *)

\* C1: under fairness of the transports, a session in which either transport
\* has closed eventually reaches Closed (WebSocket closed, MQTT session closed
\* and released) and stays there, whichever side closed first.
C1_CoupledTeardown == [](EitherClosed(One) => <>[]Closed(One))

\* C2: whenever the WebSocket emits close or error, in any session state, the
\* handler requests the end of the session's MQTT client.
C2_WsCloseEndsMqtt ==
    [][(WsClose(One) \/ WsError(One))
        => mqttEndCalls'[One] = mqttEndCalls[One] + 1]_vars

\* C3: whenever the MQTT client emits close while the WebSocket is open, the
\* handler calls ws.close(), and the WebSocket is no longer open afterwards.
C3_MqttCloseClosesWs ==
    [][(MqttClose(One) /\ ws[One] = OPEN)
        => /\ wsCloseCalls'[One] = wsCloseCalls[One] + 1
           /\ ws'[One] # OPEN]_vars

\* The MQTT client's close was handled with the WebSocket open: ws.close() was
\* called and the WebSocket is closing.
C3_Witness ==
    /\ mqStream[One] = "closed"
    /\ wsCloseCalls[One] = 1
    /\ ws[One] = "CLOSING"

\* C4: after the session has reached Closed no publish is issued and no frame
\* is sent, whatever events follow.  Closed requires the WebSocket to be closed
\* and a closed WebSocket never reopens, so the statement is made of every step
\* taken with the WebSocket closed.
C4_NoActivityAfterClosed ==
    [][(Closed(One) \/ ws[One] = "CLOSED")
        => /\ published'[One] = published[One]
           /\ wsSent'[One] = wsSent[One]]_vars

\* A Closed session that still has an event to receive: the callback of a
\* publish it issued earlier.
C4_Witness == Closed(One) /\ pubPending[One] # <<>>

\* C5: a publish is issued only while the session is Bridging with a live MQTT
\* session, never while Connecting, after the MQTT close or offline, or after
\* the MQTT end was requested.
C5_PublishOnlyWhileBridging ==
    [][published'[One] # published[One] => Bridging(One)]_vars

\* The frame each delivered MQTT message must produce, written out.
ExpectedDataFrame(topic, message) ==
    CASE topic = "heltec/lora/data" /\ message = <<50, 51, 46, 53>> ->
           "{\"topic\":\"heltec/lora/data\",\"payload\":\"23.5\"}"
      [] topic = "heltec/nodes/n1/status" /\ message = <<111, 110>> ->
           "{\"topic\":\"heltec/nodes/n1/status\",\"payload\":\"on\"}"

\* C6: every MQTT message delivered while the session is Bridging with its
\* WebSocket open appends exactly one data frame {topic, payload: decode(B)}
\* to what was sent, and what was sent is never reordered or shortened.
C6_ForwardExactlyOnceInOrder ==
    [][/\ \A m \in MqttMessages :
            (MqttMessage(One, m[1], m[2]) /\ Bridging(One))
            => wsSent'[One] = Append(wsSent[One], ExpectedDataFrame(m[1], m[2]))
       /\ IsPrefix(wsSent[One], wsSent'[One])]_vars

\* Two different messages were delivered after the status frame and their
\* frames were sent in the order of delivery.
C6_Witness ==
    wsSent[One] = << StatusFrame,
                     "{\"topic\":\"heltec/nodes/n1/status\",\"payload\":\"on\"}",
                     "{\"topic\":\"heltec/lora/data\",\"payload\":\"23.5\"}" >>

\* A well-formed publish intent: JSON, type "publish", a non-empty string
\* topic, a payload present.
WellFormedIntent(frame) ==
    LET parsed == JSONparse(frame) IN
    /\ parsed.ok
    /\ parsed.value.k = "obj"
    /\ Get(parsed.value, "type") = JStr("publish")
    /\ Get(parsed.value, "topic").k = "str"
    /\ Get(parsed.value, "topic").s # ""
    /\ Get(parsed.value, "payload") # Undefined

\* The publish each well-formed frame of the model must produce, written out.
ExpectedPublish(frame) ==
    CASE frame = FramePublishObj ->
           [topic |-> JStr("heltec/cmd"), payload |-> "{\"on\":true}",
            qos |-> 0, retain |-> FALSE]
      [] frame = FramePublishEmpty ->
           [topic |-> JStr("heltec/led"), payload |-> "\"\"",
            qos |-> 0, retain |-> FALSE]

\* C7: every well-formed publish intent appends exactly one publish carrying
\* its topic, the JSON text of its payload, qos 0 and retain false, and the
\* publishes issued are never reordered or dropped.
C7_PublishExactlyOnceInOrder ==
    [][/\ \A f \in InboundFrames :
            (WsMessage(One, f) /\ WellFormedIntent(f))
            => published'[One] = Append(published[One], ExpectedPublish(f))
       /\ IsPrefix(published[One], published'[One])]_vars

\* Two different well-formed intents were received and published in order.
C7_Witness ==
    published[One] = << ExpectedPublish(FramePublishEmpty),
                        ExpectedPublish(FramePublishObj) >>

IsDataFrame(text) == \E m \in MqttMessages : text = ExpectedDataFrame(m[1], m[2])

\* C8: no data frame is sent on a WebSocket before the status frame
\* {"status":"connected"} has been sent on it.
C8_StatusBeforeData ==
    \A i \in 1..Len(wsSent[One]) :
        IsDataFrame(wsSent[One][i])
        => \E j \in 1..(i - 1) : wsSent[One][j] = "{\"status\":\"connected\"}"

\* A data frame was sent, after the status frame.
C8_Witness ==
    /\ Len(wsSent[One]) >= 2
    /\ wsSent[One][1] = "{\"status\":\"connected\"}"
    /\ IsDataFrame(wsSent[One][2])

IsErrorFrame(text) ==
    \/ text = InvalidFormatFrame
    \/ text = ParseErrorFrame(NullTypeError)
    \/ text = ParseErrorFrame(JSONparse(FrameNotJson).message)

\* C9: a malformed frame (invalid JSON, or JSON that is no well-formed publish
\* intent) received while Bridging issues no publish, sends exactly one error
\* frame, and leaves the session Bridging with neither transport closed or
\* ended.
C9_MalformedFrameRecovered ==
    [][\A f \in InboundFrames :
           (WsMessage(One, f) /\ ~WellFormedIntent(f) /\ Bridging(One))
           => /\ published'[One] = published[One]
              /\ Len(wsSent'[One]) = Len(wsSent[One]) + 1
              /\ IsErrorFrame(wsSent'[One][Len(wsSent'[One])])
              /\ Bridging(One)'
              /\ UNCHANGED <<mqttEndCalls, wsCloseCalls>>]_vars

\* C10: an MQTT error is fatal to the session: the handler calls end() on the
\* MQTT client; once end() was called the client never becomes connected again
\* and never starts a new connection; and, the transports being fair, the
\* session's WebSocket does not stay open.
C10_MqttErrorFatal ==
    /\ [][\A m \in MqttErrorMessages :
             MqttError(One, m) => mqttEndCalls'[One] = mqttEndCalls[One] + 1]_vars
    /\ [][mqEnding(One)
           => /\ mqConnected'[One] => mqConnected[One]
              /\ mqStream'[One] = "opening" => mqStream[One] = "opening"
              /\ ~Bridging(One)']_vars
    /\ [](mqEnding(One) => <>(ws[One] # OPEN))

\* The error was reported to the browser, the MQTT client ended and closed,
\* and the session closed the WebSocket.
C10_Witness ==
    /\ Len(wsSent[One]) >= 1
    /\ wsSent[One][Len(wsSent[One])] = BrokerErrorFrame("connect ECONNREFUSED")
    /\ mqttEndCalls[One] = 1
    /\ mqStream[One] = "closed"
    /\ wsCloseCalls[One] = 1
    /\ ws[One] = "CLOSED"

ExpectedPublishFailedFrame(topic) ==
    CASE topic = JStr("heltec/cmd") ->
           "{\"error\":\"Publish failed to heltec/cmd: client disconnecting\"}"
      [] topic = JStr("heltec/led") ->
           "{\"error\":\"Publish failed to heltec/led: client disconnecting\"}"
      [] topic = JNum(5) ->
           "{\"error\":\"Publish failed to 5: client disconnecting\"}"

\* C12: a publish whose callback reports an error makes the session send one
\* error frame to its WebSocket if that is open and nothing otherwise; neither
\* transport is closed or ended, and a session that was Bridging still is.
C12_PublishFailureRecovered ==
    [][\A m \in PublishErrorMessages :
          PublishCallback(One, TRUE, m)
          => /\ wsSent'[One] =
                  IF ws[One] = OPEN
                  THEN Append(wsSent[One],
                              ExpectedPublishFailedFrame(Head(pubPending[One])))
                  ELSE wsSent[One]
             /\ UNCHANGED <<ws, mqStream, mqConnected, wsCloseCalls,
                            mqttEndCalls, published, subscribed>>
             /\ Bridging(One) => Bridging(One)']_vars

\* A publish failed while the session was bridging: the browser was told and
\* the session is bridging still.
C12_Witness ==
    /\ Bridging(One)
    /\ Len(published[One]) = 1
    /\ pubPending[One] = <<>>
    /\ wsSent[One] = <<StatusFrame, ExpectedPublishFailedFrame(JStr("heltec/cmd"))>>

\* C13: a ws.send that fails is swallowed, whatever frame was being sent: no
\* exception leaves the handler, and the handler makes no second attempt to
\* send.
C13_SendFailureSwallowed ==
    [][/\ uncaught'[One] = uncaught[One]
       /\ sendFailures'[One] <= sendFailures[One] + 1]_vars

\* C14: close handling is idempotent: a WebSocket close event or an MQTT close
\* event delivered to a session that is already Closed raises nothing, calls
\* neither ws.close() nor mqttClient.end(), and leaves the session as it was.
C14_CloseIdempotent ==
    [][(Closed(One) /\ (WsCloseAgain(One) \/ MqttCloseAgain(One)))
        => /\ UNCHANGED <<ws, mqStream, mqConnected, mqttEndCalls, wsCloseCalls,
                          wsSent, published, subscribed, pubPending, uncaught>>
           /\ Closed(One)']_vars

\* The WebSocket closed first and end() was called once for it; the close
\* events delivered again came after the MQTT client had closed, or end()
\* would have been called a second time.
C14_Witness ==
    /\ Closed(One)
    /\ dupCloses = MaxDupCloses
    /\ mqttEndCalls[One] = 1
    /\ wsCloseCalls[One] = 0

\* Nothing of session t changes in the step.
SessionUnchanged(t) ==
    /\ ws'[t] = ws[t]
    /\ mqStream'[t] = mqStream[t]
    /\ mqConnected'[t] = mqConnected[t]
    /\ mqttEndCalls'[t] = mqttEndCalls[t]
    /\ wsCloseCalls'[t] = wsCloseCalls[t]
    /\ wsSent'[t] = wsSent[t]
    /\ published'[t] = published[t]
    /\ subscribed'[t] = subscribed[t]
    /\ pubPending'[t] = pubPending[t]
    /\ uncaught'[t] = uncaught[t]

\* C15: with sessions running concurrently, each session has an MQTT client
\* exactly when its WebSocket was accepted, the client being created in the
\* step that accepts the WebSocket and in no other; and an event of one
\* session sends, publishes, closes, ends and changes nothing on another
\* session.
C15_SessionsIsolated ==
    /\ [](\A s \in Sessions : (ws[s] = "NONE") <=> (mqStream[s] = "none"))
    /\ [][\A s \in Sessions :
             (mqStream[s] = "none" /\ mqStream'[s] # "none")
             => (ws[s] = "NONE" /\ ws'[s] = OPEN)]_vars
    /\ [][\A s \in Sessions :
             SessionNext(s) => \A t \in Sessions \ {s} : SessionUnchanged(t)]_vars

\* Two sessions are open and connected; the MQTT message delivered to the
\* first one's client reached the first one's WebSocket only.
C15_Witness ==
    /\ ws["s1"] = OPEN /\ ws["s2"] = OPEN
    /\ mqConnected["s1"] /\ mqConnected["s2"]
    /\ Len(wsSent["s1"]) = 2
    /\ IsDataFrame(wsSent["s1"][2])
    /\ wsSent["s2"] = <<StatusFrame>>

\* C16: an inbound frame is accepted, and published, if and only if it parses as
\* JSON, its type is "publish", its topic is a non-empty string and its payload
\* is present, whatever the payload's value; every other frame, one whose
\* topic is not a string included, is rejected: nothing is published and an
\* error frame is sent to an open WebSocket.
C16_AcceptsExactlyWellFormed ==
    [][\A f \in InboundFrames :
          WsMessage(One, f)
          => IF WellFormedIntent(f)
             THEN /\ published'[One] = Append(published[One], ExpectedPublish(f))
                  /\ wsSent'[One] = wsSent[One]
             ELSE /\ published'[One] = published[One]
                  /\ ws[One] = OPEN
                       => /\ Len(wsSent'[One]) = Len(wsSent[One]) + 1
                          /\ IsErrorFrame(wsSent'[One][Len(wsSent'[One])])]_vars

\* C17: a frame is handed to the session's WebSocket only in a step that
\* starts with that WebSocket open: once ws.close() was called, or the
\* WebSocket has closed, nothing more is sent on it.
C17_SendOnlyWhenOpen ==
    [][wsSent'[One] # wsSent[One] => ws[One] = OPEN]_vars

\* The MQTT client connected a second time, to a session whose WebSocket had
\* closed: the connect handler ran and sent no status frame.
C17_Witness ==
    /\ ws[One] = "CLOSED"
    /\ Len(subscribed[One]) = 6
    /\ wsSent[One] = <<StatusFrame>>

\* C18: on an MQTT connect acknowledgment the session subscribes to
\* heltec/lora/data, heltec/gateway/+/status and heltec/nodes/+/status, each at
\* QoS 0, and then sends the status frame if the WebSocket is open; whichever
\* of the subscriptions fail, all three are issued and the status frame is
\* sent, and neither transport is closed or ended.
C18_SubscribeThenStatus ==
    [][\A subErrs \in SUBSET (1..3) :
          MqttConnect(One, subErrs)
          => /\ subscribed'[One] = subscribed[One] \o
                   << [filter |-> "heltec/lora/data", qos |-> 0],
                      [filter |-> "heltec/gateway/+/status", qos |-> 0],
                      [filter |-> "heltec/nodes/+/status", qos |-> 0] >>
             /\ wsSent'[One] = IF ws[One] = OPEN
                               THEN Append(wsSent[One], "{\"status\":\"connected\"}")
                               ELSE wsSent[One]
             /\ UNCHANGED <<ws, wsCloseCalls, mqttEndCalls, published,
                            pubPending>>]_vars

\* Connected, subscribed three times, status sent, both transports up.
C18_Witness ==
    /\ Len(subscribed[One]) = 3
    /\ wsSent[One] = <<StatusFrame>>
    /\ Bridging(One)

\* How many elements of seq are x.
Count(seq, x) == Cardinality({i \in 1..Len(seq) : seq[i] = x})

\* C19: over the life of a session each topic filter is subscribed at most
\* once and the status frame is sent at most once, and a session that has left
\* Bridging never is Bridging again.
C19_ForwardOnly ==
    /\ [](\A sub \in {Subscriptions[i] : i \in 1..3} :
             Count(subscribed[One], sub) <= 1)
    /\ [](Count(wsSent[One], StatusFrame) <= 1)
    /\ [][(subscribed[One] # <<>> /\ ~Bridging(One)) => ~Bridging(One)']_vars

====
